---- MODULE Spec2Model ----
(***************************************************************************)
(* A model of the doubly-linked list of solutions/src/list.rs: the heap of *)
(* nodes addressed by raw pointers, the four push/pop operations and the   *)
(* destructor.  Ghost variables (the abstract sequence and the run         *)
(* recorders) are updated from the calls alone, never from the heap.       *)
(*                                                                         *)
(* The module also holds the mutable iterator of the list (SpecIter), the  *)
(* arbitrary-precision integer of solutions/src/bigint.rs (SpecBig) and    *)
(* the concurrent counter of solutions/src/counter.rs (SpecCounter).  Each *)
(* specification moves its own variables and leaves the others at rest.    *)
(***************************************************************************)
EXTENDS Integers, Sequences, FiniteSets, TLC

\* Number of heap cells a node can be allocated in (bounds the list length).
MaxNodes == 3
\* Payloads are 1..MaxVal.
MaxVal == 2

\* A u64 block of a BigInt is modelled as a word of BlockBits bits.
BlockBits == 1
\* The bits of the largest BigInt argument and of the largest vector given
\* to from_vec, and the blocks that hold them.
ArgBits == 3
ArgBlocks == (ArgBits + BlockBits - 1) \div BlockBits
\* The longest BigInt an operation may produce.
MaxDigits == ArgBlocks + 1

\* compare_and_inc is called with test in 0..MaxTest and by in 1..MaxBy.
MaxTest == 3
MaxBy == 2

\* sort is given slices of at most MaxLen elements out of 0..MaxKey.
MaxLen == 4
MaxKey == 2

\* At most MaxCbs closures are registered; calls nest at most MaxDepth deep.
MaxCbs == 3
MaxDepth == 3

\* rgrep is given at most MaxFiles files that hold at most MaxLines lines
\* in all.
MaxFiles == 2
MaxLines == 3

\* ptr::null_mut()
Null == 0
Addr == 1..MaxNodes
\* type NodePtr<T> = *mut Node<T>
NodePtr == Addr \cup {Null}
Data == 1..MaxVal

\* Option<T>
None == <<>>
Some(x) == <<x>>

VARIABLES
  first,     \* LinkedList.first
  last,      \* LinkedList.last
  mem,       \* heap cells: Addr -> Node
  live,      \* cells allocated (Box::new) and not yet freed
  pc,        \* "idle" (list usable), "dropping" (inside drop), "dropped"
  cur_ptr,   \* the local of drop()
  ret,       \* what the last pop returned
  lastOp,    \* the operation that produced this state
  faults,    \* undefined behaviour / failed assertions met so far
  s,         \* ghost: the abstract sequence of payloads
  aret,      \* ghost: what the abstract deque returned for the last pop
  run,       \* ghost: current run of pushes then pops at one end
  q,         \* ghost: push_back-only fill from empty, then pop_front drain
  anyPop,    \* ghost: some pop was called since new()
  dropFreed, \* ghost: cells released by drop(), in order
  dropData,  \* ghost: payloads destroyed by drop(), in order
  rt,        \* ghost: the list as it was before a push_back / pop_back pair
  \* the iterator
  it_next,   \* IterMut.next
  it_ret,    \* what the last IterMut::next returned (a reference = a cell)
  yielded,   \* ghost: the references handed out so far, in order
  wr,        \* ghost: the last write through a yielded reference
  \* the big integer
  acc,       \* the BigInt the operations work on (BigInt.data)
  bprev,     \* ghost: acc before the last operation
  barg,      \* ghost: the BigInt argument of the last operation
  bop,       \* the last operation on acc
  bpanic,    \* the panic message of the last operation, or NoPanic
  \* the concurrent counter
  cnt,       \* the usize inside the RwLock
  writer,    \* the thread holding the write lock, or NoThread
  readers,   \* the threads holding a read lock
  tpc,       \* each thread's position
  titer,     \* each thread's completed loop iterations
  tmp,       \* each thread's value read from the counter
  got,       \* what the last get() of main returned
  \* the sort
  sdata,     \* the slice given to the outermost sort
  sorig,     \* ghost: the slice as it was given
  sstack,    \* the calls of sort still to be made: <<offset, length>>
  slo,       \* the offset of the slice of the running call
  slen,      \* the length of the slice of the running call
  lpos,      \* the local lpos
  rpos,      \* the local rpos
  spivot,    \* ghost: data[0] when the running call began
  spc,       \* the position in sort
  \* the callbacks
  cbcells,    \* the closures registered in c, by cell: "print" or "nested"
  cbclone,    \* the cells of the clone of the Callbacks in c
  cbcloned,   \* the clone was made
  cbborrowed, \* the cells of closures that are mutably borrowed
  cbouter,    \* the RefCell around the Callbacks in c is mutably borrowed
  cbstack,    \* the calls of Callbacks::call that are running
  cbrunning,  \* ghost: the cells whose closure is running, outermost first
  cbran,      \* ghost: <<cell, val>> of every closure entered by this call
  cbpanic,    \* the panic that stopped the program, or NoPanic
  \* rgrep
  gfiles,     \* the content of the files of options.files: their lines
  gpattern,   \* options.pattern
  gmode,      \* options.output_mode
  gread,      \* read_files: <<fileidx, lineidx>> of the line it sends next
  gchan1,     \* the lines in the channel from read_files to filter_lines
  gclosed1,   \* line_sender was dropped
  gline,      \* filter_lines: the line it received and has not yet tested
  gchan2,     \* the lines in the channel from filter_lines to output_lines
  gclosed2,   \* filtered_sender was dropped
  grecv,      \* ghost: the lines output_lines received, in order
  gprinted,   \* what output_lines printed, in order
  gpc         \* which of the three threads have ended

listVars == <<first, last, mem, live, pc, cur_ptr, ret, lastOp, faults,
              s, aret, run, q, anyPop, dropFreed, dropData>>
iterVars == <<it_next, it_ret, yielded, wr>>
bigVars == <<acc, bprev, barg, bop, bpanic>>
ctrVars == <<cnt, writer, readers, tpc, titer, tmp, got>>
sortVars == <<sdata, sorig, sstack, slo, slen, lpos, rpos, spivot, spc>>
cbVars == <<cbcells, cbclone, cbcloned, cbborrowed, cbouter, cbstack,
            cbrunning, cbran, cbpanic>>
grepVars == <<gfiles, gpattern, gmode, gread, gchan1, gclosed1, gline, gchan2,
              gclosed2, grecv, gprinted, gpc>>
extVars == <<sortVars, cbVars, grepVars>>
vars == <<listVars, rt, iterVars, bigVars, ctrVars, extVars>>

\* struct Node<T> { data, next, prev }
Node(d, n, p) == [data |-> d, next |-> n, prev |-> p]
\* The content of a cell that holds no node; never observed by the code.
FreeCell == Node(0, Null, Null)

-----------------------------------------------------------------------------
\* Raw pointer accesses.  A read through a pointer to a freed cell is
\* undefined behaviour: it may produce any value of the field's type.

UseAfterFree(ptrs) == IF ptrs \subseteq live THEN {} ELSE {"use_after_free"}

ReadNext(p) == IF p \in live THEN {mem[p].next} ELSE NodePtr
ReadPrev(p) == IF p \in live THEN {mem[p].prev} ELSE NodePtr
ReadData(p) == IF p \in live THEN {mem[p].data} ELSE Data

\* (*p).next = v, with lv the cells allocated at the time of the write; a
\* write to a cell that holds no node changes no node.
WriteNext(m, lv, p, v) == IF p \in lv THEN [m EXCEPT ![p].next = v] ELSE m
\* (*p).prev = v
WritePrev(m, lv, p, v) == IF p \in lv THEN [m EXCEPT ![p].prev = v] ELSE m

\* raw_into_box(p) followed by the drop of the Box: the cell is released.
raw_into_box(m, p) == [m EXCEPT ![p] = FreeCell]
DoubleFree(p) == IF p \in live THEN {} ELSE {"double_free"}

\* debug_assert!(cond)
debug_assert(cond) == IF cond THEN {} ELSE {"assert"}

-----------------------------------------------------------------------------
\* Ghost recorders.

NoRun == [end |-> "none", pushed |-> <<>>, popped |-> <<>>]
RunPush(e, x) ==
  IF run.end = e /\ run.popped = <<>>
    THEN [run EXCEPT !.pushed = Append(@, x)]
    ELSE [end |-> e, pushed |-> <<x>>, popped |-> <<>>]
RunPop(e, r) ==
  IF run.end = e /\ Len(run.popped) < Len(run.pushed)
    THEN [run EXCEPT !.popped = Append(@, r)]
    ELSE NoRun

\* The list as it was before a push_back, kept while a pop_back follows.
RtNone ==
  [phase |-> "none", x |-> 0, first |-> Null, last |-> Null,
   mem |-> <<>>, live |-> {}]
RtPush(t) ==
  [phase |-> "pushed", x |-> t, first |-> first, last |-> last,
   mem |-> mem, live |-> live]
RtPop == IF rt.phase = "pushed" THEN [rt EXCEPT !.phase = "popped"] ELSE RtNone

QFresh == [mode |-> "fill", pushed |-> <<>>, popped |-> <<>>]
QOff == [mode |-> "off", pushed |-> <<>>, popped |-> <<>>]
\* after an operation other than push_back / pop_front, leaving abstract s2
QOther(s2) == IF s2 = <<>> THEN QFresh ELSE QOff
QPushBack(x) ==
  IF q.mode = "fill" THEN [q EXCEPT !.pushed = Append(@, x)]
  ELSE IF s = <<>> THEN [QFresh EXCEPT !.pushed = <<x>>]
  ELSE QOff
QPopFront(r) ==
  IF q.mode \in {"fill", "drain"} /\ Len(q.popped) <= Len(q.pushed)
    THEN [mode |-> "drain", pushed |-> q.pushed, popped |-> Append(q.popped, r)]
  ELSE IF s = <<>> THEN [mode |-> "drain", pushed |-> <<>>, popped |-> <<r>>]
  ELSE QOther(Tail(s))

-----------------------------------------------------------------------------
\* LinkedList::new()
new ==
  /\ first = Null
  /\ last = Null
  /\ mem = [a \in Addr |-> FreeCell]
  /\ live = {}

ListInit ==
  /\ new
  /\ pc = "idle"
  /\ cur_ptr = Null
  /\ ret = None
  /\ lastOp = "new"
  /\ faults = {}
  /\ s = <<>>
  /\ aret = None
  /\ run = NoRun
  /\ q = QFresh
  /\ anyPop = FALSE
  /\ dropFreed = <<>>
  /\ dropData = <<>>

\* Seeded fault: the new node's prev is left null.
push_back_mut_noprev(t) == Node(t, Null, Null)
\* push_back: Box::new(Node { data: t, next: null, prev: self.last })
push_back_new(t) == Node(t, Null, last)

\* Seeded fault: the old tail's next is not updated.
push_back_mut_nolink(m, lv, new_) == m
\* push_back: (*self.last).next = new, done after the allocation (cells lv)
push_back_link(m, lv, new_) == WriteNext(m, lv, last, new_)

\* LinkedList::push_back(t)
push_back(t) ==
  /\ pc = "idle"
  /\ \E new_ \in Addr \ live :
       LET m1 == [mem EXCEPT ![new_] = push_back_new(t)]
       IN /\ live' = live \cup {new_}
          /\ IF last = Null
               THEN /\ faults' = faults \cup debug_assert(first = Null)
                    /\ first' = new_
                    /\ mem' = m1
               ELSE /\ faults' = faults \cup debug_assert(first # Null)
                                        \cup UseAfterFree({last})
                    /\ first' = first
                    /\ mem' = push_back_link(m1, live \cup {new_}, new_)
          /\ last' = new_
  /\ lastOp' = "push_back"
  /\ s' = Append(s, t)
  /\ run' = RunPush("back", t)
  /\ q' = QPushBack(t)
  /\ UNCHANGED <<pc, cur_ptr, ret, aret, anyPop, dropFreed, dropData>>

\* Seeded fault: first is not reset when the list becomes empty.
pop_back_mut_keepfirst(new_last) == first
\* pop_back: if new_last.is_null() { self.first = new_last }
pop_back_first(new_last) == IF new_last = Null THEN new_last ELSE first

\* Seeded fault: the new tail keeps its next link to the removed node.
pop_back_mut_nounlink(new_last) == mem
\* pop_back: else { (*new_last).next = null }
pop_back_unlink(new_last) ==
  IF new_last = Null THEN mem ELSE WriteNext(mem, live, new_last, Null)

\* LinkedList::pop_back()
pop_back ==
  /\ pc = "idle"
  /\ IF last = Null
       THEN /\ ret' = None
            /\ UNCHANGED <<first, last, mem, live, faults>>
       ELSE \E new_last \in ReadPrev(last), d \in ReadData(last) :
              /\ last' = new_last
              /\ first' = pop_back_first(new_last)
              /\ mem' = raw_into_box(pop_back_unlink(new_last), last)
              /\ live' = live \ {last}
              /\ faults' = faults \cup UseAfterFree({last})
                             \cup (IF new_last = Null THEN {}
                                   ELSE UseAfterFree({new_last}))
                             \cup DoubleFree(last)
              /\ ret' = Some(d)
  /\ lastOp' = "pop_back"
  /\ aret' = IF s = <<>> THEN None ELSE Some(s[Len(s)])
  /\ s' = IF s = <<>> THEN s ELSE SubSeq(s, 1, Len(s) - 1)
  /\ run' = RunPop("back", ret')
  /\ q' = QOther(s')
  /\ anyPop' = TRUE
  /\ UNCHANGED <<pc, cur_ptr, dropFreed, dropData>>

\* Seeded fault: the new head does not point to the old head.
push_front_mut_nonext(t) == Node(t, Null, Null)
\* push_front: Box::new(Node { data: t, next: self.first, prev: null })
push_front_new(t) == Node(t, first, Null)

\* Seeded fault: the old head's prev is not updated.
push_front_mut_nolink(m, lv, new_) == m
\* push_front: (*self.first).prev = new, done after the allocation (cells lv)
push_front_link(m, lv, new_) == WritePrev(m, lv, first, new_)

\* LinkedList::push_front(t)
push_front(t) ==
  /\ pc = "idle"
  /\ \E new_ \in Addr \ live :
       LET m1 == [mem EXCEPT ![new_] = push_front_new(t)]
       IN /\ live' = live \cup {new_}
          /\ IF first = Null
               THEN /\ faults' = faults \cup debug_assert(last = Null)
                    /\ last' = new_
                    /\ mem' = m1
               ELSE /\ faults' = faults \cup debug_assert(last # Null)
                                        \cup UseAfterFree({first})
                    /\ last' = last
                    /\ mem' = push_front_link(m1, live \cup {new_}, new_)
          /\ first' = new_
  /\ lastOp' = "push_front"
  /\ s' = <<t>> \o s
  /\ run' = RunPush("front", t)
  /\ q' = QOther(s')
  /\ UNCHANGED <<pc, cur_ptr, ret, aret, anyPop, dropFreed, dropData>>

\* Seeded fault: last is not reset when the list becomes empty.
pop_front_mut_keeplast(new_first) == last
\* pop_front: if new_first.is_null() { self.last = new_first }
pop_front_last(new_first) == IF new_first = Null THEN new_first ELSE last

\* Seeded fault: the next link of the new head is cleared, not its prev.
pop_front_mut_clearnext(new_first) ==
  IF new_first = Null THEN mem ELSE WriteNext(mem, live, new_first, Null)
\* Seeded fault: the new head keeps its prev link to the removed node.
pop_front_mut_nounlink(new_first) == mem
\* pop_front: else { (*new_first).prev = null }
pop_front_unlink(new_first) ==
  IF new_first = Null THEN mem ELSE WritePrev(mem, live, new_first, Null)

\* LinkedList::pop_front()
pop_front ==
  /\ pc = "idle"
  /\ IF first = Null
       THEN /\ ret' = None
            /\ UNCHANGED <<first, last, mem, live, faults>>
       ELSE \E new_first \in ReadNext(first), d \in ReadData(first) :
              /\ first' = new_first
              /\ last' = pop_front_last(new_first)
              /\ mem' = raw_into_box(pop_front_unlink(new_first), first)
              /\ live' = live \ {first}
              /\ faults' = faults \cup UseAfterFree({first})
                             \cup (IF new_first = Null THEN {}
                                   ELSE UseAfterFree({new_first}))
                             \cup DoubleFree(first)
              /\ ret' = Some(d)
  /\ lastOp' = "pop_front"
  /\ aret' = IF s = <<>> THEN None ELSE Some(s[1])
  /\ s' = IF s = <<>> THEN s ELSE Tail(s)
  /\ run' = RunPop("front", ret')
  /\ q' = QPopFront(ret')
  /\ anyPop' = TRUE
  /\ UNCHANGED <<pc, cur_ptr, dropFreed, dropData>>

\* Drop for LinkedList: let mut cur_ptr = self.first;
drop_enter ==
  /\ pc = "idle"
  /\ pc' = "dropping"
  /\ cur_ptr' = first
  /\ lastOp' = "drop"
  /\ UNCHANGED <<first, last, mem, live, ret, faults, s, aret, run, q,
                 anyPop, dropFreed, dropData>>

\* Seeded fault: the walk of drop follows prev instead of next.
drop_mut_prev(p) == ReadPrev(p)
\* drop: cur_ptr = cur.next, read from the node that is being released
drop_next(p) == ReadNext(p)

\* Seeded fault: the node is not released.
drop_mut_leak(lv, p) == lv
\* drop: drop(cur) releases the node
drop_cur(lv, p) == lv \ {p}

\* One iteration of the loop of drop: cur = raw_into_box(cur_ptr);
\* cur_ptr = cur.next; drop(cur).
drop_node ==
  /\ pc = "dropping"
  /\ cur_ptr # Null
  /\ \E nxt \in drop_next(cur_ptr), d \in ReadData(cur_ptr) :
       /\ cur_ptr' = nxt
       /\ dropData' = Append(dropData, d)
  /\ dropFreed' = Append(dropFreed, cur_ptr)
  /\ mem' = raw_into_box(mem, cur_ptr)
  /\ live' = drop_cur(live, cur_ptr)
  /\ faults' = faults \cup UseAfterFree({cur_ptr}) \cup DoubleFree(cur_ptr)
  /\ UNCHANGED <<first, last, pc, ret, lastOp, s, aret, run, q, anyPop>>

\* while !cur_ptr.is_null() fails: drop returns and the list is gone.
drop_exit ==
  /\ pc = "dropping"
  /\ cur_ptr = Null
  /\ pc' = "dropped"
  /\ UNCHANGED <<first, last, mem, live, cur_ptr, ret, lastOp, faults, s,
                 aret, run, q, anyPop, dropFreed, dropData>>

\* The value of it_ret while IterMut::next has not been called.
NotCalled == <<Null, Null>>

\* No iterator exists.
NoIter ==
  /\ it_next = Null
  /\ it_ret = NotCalled
  /\ yielded = <<>>
  /\ wr = <<>>

NoPanic == ""

\* No BigInt is in use.
BigOff ==
  /\ acc = <<>>
  /\ bprev = <<>>
  /\ barg = <<>>
  /\ bop = "off"
  /\ bpanic = NoPanic

\* No thread holds the write lock.
NoThread == "none"

\* No counter is in use.
CounterOff ==
  /\ cnt = 0
  /\ writer = NoThread
  /\ readers = {}
  /\ tpc = <<>>
  /\ titer = <<>>
  /\ tmp = <<>>
  /\ got = 0

\* No sort is running.
SortOff ==
  /\ sdata = <<>>
  /\ sorig = <<>>
  /\ sstack = <<>>
  /\ slo = 0
  /\ slen = 0
  /\ lpos = 0
  /\ rpos = 0
  /\ spivot = 0
  /\ spc = "off"

\* No Callbacks exists.
CallbacksOff ==
  /\ cbcells = <<>>
  /\ cbclone = <<>>
  /\ cbcloned = FALSE
  /\ cbborrowed = {}
  /\ cbouter = FALSE
  /\ cbstack = <<>>
  /\ cbrunning = <<>>
  /\ cbran = <<>>
  /\ cbpanic = NoPanic

\* No rgrep runs.
GrepOff ==
  /\ gfiles = <<>>
  /\ gpattern = <<>>
  /\ gmode = "off"
  /\ gread = <<0, 0>>
  /\ gchan1 = <<>>
  /\ gclosed1 = FALSE
  /\ gline = None
  /\ gchan2 = <<>>
  /\ gclosed2 = FALSE
  /\ grecv = <<>>
  /\ gprinted = <<>>
  /\ gpc = <<>>

ExtOff == SortOff /\ CallbacksOff /\ GrepOff

Init ==
  /\ ListInit
  /\ rt = RtNone
  /\ NoIter
  /\ ExtOff
  /\ BigOff
  /\ CounterOff

\* The calls a client of the list can make while no iterator borrows it.
Next ==
  \/ /\ \E t \in Data : push_back(t) /\ rt' = RtPush(t)
     /\ UNCHANGED <<iterVars, bigVars, ctrVars, extVars>>
  \/ /\ pop_back
     /\ rt' = RtPop
     /\ UNCHANGED <<iterVars, bigVars, ctrVars, extVars>>
  \/ /\ \E t \in Data : push_front(t)
     /\ rt' = RtNone
     /\ UNCHANGED <<iterVars, bigVars, ctrVars, extVars>>
  \/ /\ pop_front
     /\ rt' = RtNone
     /\ UNCHANGED <<iterVars, bigVars, ctrVars, extVars>>
  \/ /\ drop_enter
     /\ rt' = RtNone
     /\ UNCHANGED <<iterVars, bigVars, ctrVars, extVars>>
  \/ /\ drop_node
     /\ UNCHANGED <<rt, iterVars, bigVars, ctrVars, extVars>>
  \/ /\ drop_exit
     /\ UNCHANGED <<rt, iterVars, bigVars, ctrVars, extVars>>

Spec == Init /\ [][Next]_vars

-----------------------------------------------------------------------------
\* The mutable iterator.  iter_mut borrows the list exclusively (&mut self)
\* for as long as the iterator or a reference it yielded is in use: pc is
\* "iterating" and the operations of the list, guarded by pc = "idle", are
\* not callable.

\* Seeded fault: the iterator starts at the tail.
iter_mut_mut_last == last
\* iter_mut: IterMut { next: self.first }
iter_mut_start == first

\* LinkedList::iter_mut().  The call comes between the pushes and pops, so
\* it ends the runs of consecutive pushes and pops the recorders follow.
iter_mut ==
  /\ pc = "idle"
  /\ pc' = "iterating"
  /\ it_next' = iter_mut_start
  /\ it_ret' = NotCalled
  /\ yielded' = <<>>
  /\ wr' = <<>>
  /\ rt' = RtNone
  /\ run' = NoRun
  /\ q' = QOther(s)
  /\ UNCHANGED <<first, last, mem, live, cur_ptr, ret, lastOp, faults, s,
                 aret, anyPop, dropFreed, dropData>>

\* Seeded fault: the cursor advances along prev.
IterMut_mut_prev(p) == ReadPrev(p)
\* IterMut::next: self.next = (*self.next).next
IterMut_advance(p) == ReadNext(p)

\* Seeded fault: an exhausted iterator starts again at the head.
IterMut_mut_restart == first
\* IterMut::next: if self.next.is_null() { None } leaves the cursor as it is
IterMut_none == it_next

\* IterMut::next(); the reference it returns is named by the cell it points
\* into.  A chain that never reaches null is followed MaxNodes + 1 times.
IterMut_next ==
  /\ pc = "iterating"
  /\ Len(yielded) <= MaxNodes
  /\ IF it_next = Null
       THEN /\ it_ret' = None
            /\ it_next' = IterMut_none
            /\ UNCHANGED <<yielded, faults>>
       ELSE \E n \in IterMut_advance(it_next) :
              /\ it_ret' = Some(it_next)
              /\ it_next' = n
              /\ yielded' = Append(yielded, it_next)
              /\ faults' = faults \cup UseAfterFree({it_next})
  /\ wr' = <<>>
  /\ UNCHANGED <<first, last, mem, live, pc, cur_ptr, ret, lastOp, s, aret,
                 run, q, anyPop, dropFreed, dropData, rt>>

\* *r = v through the i-th reference the iterator yielded.  In the abstract
\* sequence this is an assignment to the i-th element; it ends any run of
\* pushes and pops.
iter_write(i, v) ==
  /\ pc = "iterating"
  /\ i \in 1..Len(yielded)
  /\ mem' = IF yielded[i] \in live
              THEN [mem EXCEPT ![yielded[i]].data = v] ELSE mem
  /\ faults' = faults \cup UseAfterFree({yielded[i]})
  /\ s' = IF i <= Len(s) THEN [s EXCEPT ![i] = v] ELSE s
  /\ wr' = <<i, v>>
  /\ run' = NoRun
  /\ q' = QOther(s')
  /\ UNCHANGED <<first, last, live, pc, cur_ptr, ret, lastOp, aret, anyPop,
                 dropFreed, dropData, rt, it_next, it_ret, yielded>>

\* The iterator and the references it yielded go out of use: the borrow of
\* the list ends.
iter_end ==
  /\ pc = "iterating"
  /\ pc' = "idle"
  /\ it_next' = Null
  /\ it_ret' = NotCalled
  /\ yielded' = <<>>
  /\ wr' = <<>>
  /\ UNCHANGED <<first, last, mem, live, cur_ptr, ret, lastOp, faults, s,
                 aret, run, q, anyPop, dropFreed, dropData, rt>>

\* for_each: let mut cur_ptr = self.first.  The call borrows the list until
\* it returns (pc is "for_each"); yielded lists the cells whose payload the
\* closure was given.
for_each_enter ==
  /\ pc = "idle"
  /\ pc' = "for_each"
  /\ cur_ptr' = first
  /\ yielded' = <<>>
  /\ rt' = RtNone
  /\ run' = NoRun
  /\ q' = QOther(s)
  /\ UNCHANGED <<first, last, mem, live, ret, lastOp, faults, s, aret, anyPop,
                 dropFreed, dropData, it_next, it_ret, wr>>

\* Seeded fault: the walk of for_each follows prev.
for_each_mut_prev(p) == ReadPrev(p)
\* for_each: cur_ptr = (*cur_ptr).next
for_each_next(p) == ReadNext(p)

\* One iteration of for_each: f(&mut (*cur_ptr).data), where the closure
\* may leave the payload or store any value v, then the cursor moves on.
for_each_call(v) ==
  /\ pc = "for_each"
  /\ cur_ptr # Null
  /\ Len(yielded) <= MaxNodes
  /\ mem' = IF cur_ptr \in live THEN [mem EXCEPT ![cur_ptr].data = v] ELSE mem
  /\ \E n \in for_each_next(cur_ptr) : cur_ptr' = n
  /\ faults' = faults \cup UseAfterFree({cur_ptr})
  /\ yielded' = Append(yielded, cur_ptr)
  /\ s' = IF Len(yielded) < Len(s) THEN [s EXCEPT ![Len(yielded) + 1] = v] ELSE s
  /\ UNCHANGED <<first, last, live, pc, ret, lastOp, aret, run, q, anyPop,
                 dropFreed, dropData, rt, it_next, it_ret, wr>>

\* for_each: while !cur_ptr.is_null() fails and the call returns
for_each_return ==
  /\ pc = "for_each"
  /\ cur_ptr = Null
  /\ pc' = "idle"
  /\ yielded' = <<>>
  /\ q' = QOther(s)
  /\ UNCHANGED <<first, last, mem, live, cur_ptr, ret, lastOp, faults, s,
                 aret, run, anyPop, dropFreed, dropData, rt, it_next, it_ret, wr>>

NextIter ==
  \/ Next
  \/ for_each_enter /\ UNCHANGED <<bigVars, ctrVars, extVars>>
  \/ \E v \in Data : for_each_call(v) /\ UNCHANGED <<bigVars, ctrVars, extVars>>
  \/ for_each_return /\ UNCHANGED <<bigVars, ctrVars, extVars>>
  \/ iter_mut /\ UNCHANGED <<bigVars, ctrVars, extVars>>
  \/ IterMut_next /\ UNCHANGED <<bigVars, ctrVars, extVars>>
  \/ \E i \in 1..MaxNodes + 1, v \in Data :
       iter_write(i, v) /\ UNCHANGED <<bigVars, ctrVars, extVars>>
  \/ iter_end /\ UNCHANGED <<bigVars, ctrVars, extVars>>

SpecIter == Init /\ [][NextIter]_vars

-----------------------------------------------------------------------------
\* The big integer of solutions/src/bigint.rs.  data holds the blocks, least
\* significant first.

Base == 2 ^ BlockBits
\* u64
Word == 0..(Base - 1)
\* Vec<u64> of at most n blocks
RECURSIVE Vecs(_)
Vecs(n) ==
  IF n = 0 THEN {<<>>}
  ELSE Vecs(n - 1) \cup {Append(v, w) : v \in {u \in Vecs(n - 1) : Len(u) = n - 1},
                                        w \in Word}

\* u64::wrapping_add
wrapping_add(a, b) == (a + b) % Base
\* u64::wrapping_sub
wrapping_sub(a, b) == (a - b + Base) % Base

\* Seeded fault: an overflow of the addition of the carry is not reported.
overflowing_add_mut_nocarry(a, b, carry) ==
  LET sum == wrapping_add(a, b)
      carry_n == IF carry THEN 1 ELSE 0
  IN <<wrapping_add(sum, carry_n), sum < a>>
\* overflowing_add(a, b, carry) -> (sum, carry)
overflowing_add(a, b, carry) ==
  LET sum == wrapping_add(a, b)
      carry_n == IF carry THEN 1 ELSE 0
  IN IF sum >= a
       THEN LET sum_total == wrapping_add(sum, carry_n)
                had_overflow == sum_total < sum
            IN <<sum_total, had_overflow>>
       ELSE <<sum + carry_n, TRUE>>

\* Seeded fault: a wrap of the subtraction of the carry is not reported.
overflowing_sub_mut_nocarry(a, b, carry) ==
  LET diff == wrapping_sub(a, b)
      carry_n == IF carry THEN 1 ELSE 0
  IN <<wrapping_sub(diff, carry_n), diff > a>>
\* overflowing_sub(a, b, carry) -> (difference, carry)
overflowing_sub(a, b, carry) ==
  LET diff == wrapping_sub(a, b)
      carry_n == IF carry THEN 1 ELSE 0
  IN IF diff <= a
       THEN LET diff_total == wrapping_sub(diff, carry_n)
                had_wrap == diff_total > diff
            IN <<diff_total, had_wrap>>
       ELSE <<diff - carry_n, TRUE>>

\* BigInt::new(x)
BigInt_new(x) == IF x = 0 THEN <<>> ELSE <<x>>

\* BigInt::test_invariant
test_invariant(data) ==
  IF Len(data) = 0 THEN TRUE ELSE data[Len(data)] # 0

\* BigInt::from_vec(v): remove trailing zeros
RECURSIVE from_vec(_)
from_vec(v) ==
  IF Len(v) > 0 /\ v[Len(v)] = 0
    THEN from_vec(SubSeq(v, 1, Len(v) - 1))
    ELSE v

\* BigInt::inc1, from index idx (0-based, as in the code)
RECURSIVE inc1_loop(_, _)
inc1_loop(data, idx) ==
  IF idx < Len(data)
    THEN LET cur == data[idx + 1]
             sum == wrapping_add(cur, 1)
             data2 == [data EXCEPT ![idx + 1] = sum]
         IN IF sum >= cur THEN data2 ELSE inc1_loop(data2, idx + 1)
    ELSE Append(data, 1)
inc1(data) == inc1_loop(data, 0)

\* BigInt::inc(by), from index idx
RECURSIVE inc_loop(_, _, _)
inc_loop(data, by, idx) ==
  IF idx < Len(data)
    THEN LET cur == data[idx + 1]
             sum == wrapping_add(cur, by)
             data2 == [data EXCEPT ![idx + 1] = sum]
         IN IF sum >= cur THEN data2 ELSE inc_loop(data2, 1, idx + 1)
    ELSE Append(data, by)
inc(data, by) == inc_loop(data, by, 0)

\* BigInt::power_of_2(power); the code's 64 is the width of a block
RECURSIVE power_of_2_loop(_, _)
power_of_2_loop(v, power) ==
  IF power >= BlockBits
    THEN power_of_2_loop(Append(v, 0), power - BlockBits)
    ELSE from_vec(Append(v, 2 ^ power))
power_of_2(power) == power_of_2_loop(<<>>, power)

\* data[i] of the code (0-based), 0 beyond the end
Block(data, i) == IF i < Len(data) THEN data[i + 1] ELSE 0
Max(a, b) == IF a >= b THEN a ELSE b

\* Add for &BigInt: the loop over 0..max_len, then the last carry
RECURSIVE add_loop(_, _, _, _, _)
add_loop(lhs, rhs, i, carry, result_vec) ==
  IF i < Max(Len(lhs), Len(rhs))
    THEN LET r == overflowing_add(Block(lhs, i), Block(rhs, i), carry)
         IN add_loop(lhs, rhs, i + 1, r[2], Append(result_vec, r[1]))
    ELSE IF carry THEN Append(result_vec, 1) ELSE result_vec
add(lhs, rhs) == add_loop(lhs, rhs, 0, FALSE, <<>>)

\* Sub for &BigInt: the loop over 0..max_len; the result is the pair of the
\* panic message (NoPanic if none) and the BigInt returned
RECURSIVE sub_loop(_, _, _, _, _)
sub_loop(lhs, rhs, i, carry, result_vec) ==
  IF i < Max(Len(lhs), Len(rhs))
    THEN LET r == overflowing_sub(Block(lhs, i), Block(rhs, i), carry)
         IN sub_loop(lhs, rhs, i + 1, r[2], Append(result_vec, r[1]))
    ELSE IF carry THEN <<"Wrapping subtraction of BigInt", <<>>>>
         ELSE <<NoPanic, from_vec(result_vec)>>
sub(lhs, rhs) == sub_loop(lhs, rhs, 0, FALSE, <<>>)

\* The BigInts an operation can be given as its argument: those from_vec
\* makes of a vector of at most ArgBlocks blocks.
Args == {from_vec(v) : v \in Vecs(ArgBlocks)}

BigInit ==
  /\ \E x \in Word : acc = BigInt_new(x)
  /\ bprev = <<>>
  /\ barg = <<>>
  /\ bop = "new"
  /\ bpanic = NoPanic

\* acc becomes the result of an operation that takes no BigInt argument.
BigSet(op, data) ==
  /\ bpanic = NoPanic
  /\ Len(data) <= MaxDigits
  /\ acc' = data
  /\ bprev' = acc
  /\ barg' = <<>>
  /\ bop' = op
  /\ bpanic' = NoPanic

big_new(x) == BigSet("new", BigInt_new(x))
big_from_vec(v) == BigSet("from_vec", from_vec(v))
big_power_of_2(power) == BigSet("power_of_2", power_of_2(power))
big_inc1 == BigSet("inc1", inc1(acc))
big_inc(by) == BigSet("inc", inc(acc, by))

\* acc = &acc + &rhs
big_add(rhs) ==
  /\ bpanic = NoPanic
  /\ Len(add(acc, rhs)) <= MaxDigits
  /\ acc' = add(acc, rhs)
  /\ bprev' = acc
  /\ barg' = rhs
  /\ bop' = "add"
  /\ bpanic' = NoPanic

\* acc = &acc - &rhs; a panic ends the run
big_sub(rhs) ==
  /\ bpanic = NoPanic
  /\ LET r == sub(acc, rhs)
     IN /\ bpanic' = r[1]
        /\ acc' = IF r[1] = NoPanic THEN r[2] ELSE acc
  /\ bprev' = acc
  /\ barg' = rhs
  /\ bop' = "sub"

NextBig ==
  \/ \E x \in Word : big_new(x) /\ UNCHANGED <<listVars, rt, iterVars, ctrVars, extVars>>
  \/ \E v \in Vecs(ArgBlocks) :
       big_from_vec(v) /\ UNCHANGED <<listVars, rt, iterVars, ctrVars, extVars>>
  \/ \E power \in 0..(MaxDigits * BlockBits - 1) :
       big_power_of_2(power) /\ UNCHANGED <<listVars, rt, iterVars, ctrVars, extVars>>
  \/ big_inc1 /\ UNCHANGED <<listVars, rt, iterVars, ctrVars, extVars>>
  \/ \E by \in Word : big_inc(by) /\ UNCHANGED <<listVars, rt, iterVars, ctrVars, extVars>>
  \/ \E rhs \in Args : big_add(rhs) /\ UNCHANGED <<listVars, rt, iterVars, ctrVars, extVars>>
  \/ \E rhs \in Args : big_sub(rhs) /\ UNCHANGED <<listVars, rt, iterVars, ctrVars, extVars>>

InitBig ==
  /\ ListInit
  /\ rt = RtNone
  /\ NoIter
  /\ ExtOff
  /\ BigInit
  /\ CounterOff

SpecBig == InitBig /\ [][NextBig]_vars

-----------------------------------------------------------------------------
\* The counter of solutions/src/counter.rs and the threads of its main.

\* ConcurrentCounter::new(0)
InitialValue == 0
\* for _ in 0..10 of the first thread, which calls increment(2)
Iters1 == 10
By1 == 2
\* for _ in 0..10 of the second thread, which calls increment(3)
Iters2 == 10
By2 == 3
\* for _ in 0..50 of main, which calls get()
MainGets == 50

Workers == {"handle1", "handle2"}
Main == "main"
Threads == Workers \cup {Main}
Iters(t) == IF t = "handle1" THEN Iters1 ELSE Iters2
By(t) == IF t = "handle1" THEN By1 ELSE By2

\* Seeded fault: the write lock is given out while another writer holds it.
write_mut_shared == readers = {}
\* RwLock::write returns once there is no writer and no reader
write == writer = NoThread /\ readers = {}

\* RwLock::read returns once there is no writer
read == writer = NoThread

CounterInit ==
  /\ cnt = InitialValue
  /\ writer = NoThread
  /\ readers = {}
  /\ tpc = [t \in Threads |-> "loop"]
  /\ titer = [t \in Threads |-> 0]
  /\ tmp = [t \in Workers |-> 0]
  /\ got = InitialValue

\* increment: let mut counter = self.0.write()
increment_lock(t) ==
  /\ tpc[t] = "loop"
  /\ titer[t] < Iters(t)
  /\ write
  /\ writer' = t
  /\ tpc' = [tpc EXCEPT ![t] = "locked"]
  /\ UNCHANGED <<cnt, readers, titer, tmp, got>>

\* increment: the value of *counter + by
increment_read(t) ==
  /\ tpc[t] = "locked"
  /\ tmp' = [tmp EXCEPT ![t] = cnt + By(t)]
  /\ tpc' = [tpc EXCEPT ![t] = "computed"]
  /\ UNCHANGED <<cnt, writer, readers, titer, got>>

\* increment: *counter = ...
increment_write(t) ==
  /\ tpc[t] = "computed"
  /\ cnt' = tmp[t]
  /\ tmp' = [tmp EXCEPT ![t] = 0]
  /\ tpc' = [tpc EXCEPT ![t] = "written"]
  /\ UNCHANGED <<writer, readers, titer, got>>

\* increment: the guard is dropped; the thread ends after its last iteration
increment_unlock(t) ==
  /\ tpc[t] = "written"
  /\ writer' = NoThread
  /\ titer' = [titer EXCEPT ![t] = @ + 1]
  /\ tpc' = [tpc EXCEPT ![t] = IF titer[t] + 1 < Iters(t) THEN "loop" ELSE "done"]
  /\ UNCHANGED <<cnt, readers, tmp, got>>

\* get: let counter = self.0.read(), in the loop of main or after the joins
get_lock ==
  /\ \/ tpc[Main] = "loop" /\ titer[Main] < MainGets
     \/ tpc[Main] = "joined"
  /\ read
  /\ readers' = readers \cup {Main}
  /\ tpc' = [tpc EXCEPT ![Main] = IF tpc[Main] = "loop" THEN "reading" ELSE "final"]
  /\ UNCHANGED <<cnt, writer, titer, tmp, got>>

\* get: *counter is returned and the guard is dropped
get_return ==
  /\ tpc[Main] \in {"reading", "final"}
  /\ got' = cnt
  /\ readers' = readers \ {Main}
  /\ IF tpc[Main] = "reading"
       THEN /\ titer' = [titer EXCEPT ![Main] = @ + 1]
            /\ tpc' = [tpc EXCEPT ![Main] =
                         IF titer[Main] + 1 < MainGets THEN "loop" ELSE "join1"]
       ELSE /\ titer' = titer
            /\ tpc' = [tpc EXCEPT ![Main] = "end"]
  /\ UNCHANGED <<cnt, writer, tmp>>

\* handle1.join()
join1 ==
  /\ tpc[Main] = "join1"
  /\ tpc["handle1"] = "done"
  /\ tpc' = [tpc EXCEPT ![Main] = "join2"]
  /\ UNCHANGED <<cnt, writer, readers, titer, tmp, got>>

\* handle2.join()
join2 ==
  /\ tpc[Main] = "join2"
  /\ tpc["handle2"] = "done"
  /\ tpc' = [tpc EXCEPT ![Main] = "joined"]
  /\ UNCHANGED <<cnt, writer, readers, titer, tmp, got>>

NextCounter ==
  \/ \E t \in Workers :
       increment_lock(t) /\ UNCHANGED <<listVars, rt, iterVars, bigVars, extVars>>
  \/ \E t \in Workers :
       increment_read(t) /\ UNCHANGED <<listVars, rt, iterVars, bigVars, extVars>>
  \/ \E t \in Workers :
       increment_write(t) /\ UNCHANGED <<listVars, rt, iterVars, bigVars, extVars>>
  \/ \E t \in Workers :
       increment_unlock(t) /\ UNCHANGED <<listVars, rt, iterVars, bigVars, extVars>>
  \/ get_lock /\ UNCHANGED <<listVars, rt, iterVars, bigVars, extVars>>
  \/ get_return /\ UNCHANGED <<listVars, rt, iterVars, bigVars, extVars>>
  \/ join1 /\ UNCHANGED <<listVars, rt, iterVars, bigVars, extVars>>
  \/ join2 /\ UNCHANGED <<listVars, rt, iterVars, bigVars, extVars>>

InitCounter ==
  /\ ListInit
  /\ rt = RtNone
  /\ NoIter
  /\ ExtOff
  /\ BigOff
  /\ CounterInit

SpecCounter == InitCounter /\ [][NextCounter]_vars

-----------------------------------------------------------------------------
\* Threads that call compare_and_inc on clones of one counter
\* (solutions/src/counter.rs, lines 19-24).  tmp[t] holds the arguments of
\* the call of thread t, the value the call found (ghost) and the sum.

CasRest == [test |-> 0, by |-> 0, entry |-> 0, sum |-> 0]

CasInit ==
  /\ cnt \in 0..MaxTest
  /\ writer = NoThread
  /\ readers = {}
  /\ tpc = [t \in Threads |-> "loop"]
  /\ titer = [t \in Threads |-> 0]
  /\ tmp = [t \in Workers |-> CasRest]
  /\ got = 0

\* compare_and_inc: let mut counter = self.0.write()
cas_lock(t, test, by) ==
  /\ tpc[t] = "loop"
  /\ write
  /\ writer' = t
  /\ tmp' = [tmp EXCEPT ![t] = [test |-> test, by |-> by, entry |-> cnt, sum |-> 0]]
  /\ tpc' = [tpc EXCEPT ![t] = "locked"]
  /\ UNCHANGED <<cnt, readers, titer, got>>

\* Seeded fault: the addition is done whatever the value is.
cas_mut_always(c, test) == TRUE
\* *counter == test
cas_test(c, test) == c = test

\* compare_and_inc: if *counter == test
cas_compare(t) ==
  /\ tpc[t] = "locked"
  /\ tpc' = [tpc EXCEPT ![t] = IF cas_test(cnt, tmp[t].test) THEN "equal" ELSE "differs"]
  /\ UNCHANGED <<cnt, writer, readers, titer, tmp, got>>

\* compare_and_inc: the value of *counter + by in *counter += by
cas_read(t) ==
  /\ tpc[t] = "equal"
  /\ tmp' = [tmp EXCEPT ![t].sum = cnt + tmp[t].by]
  /\ tpc' = [tpc EXCEPT ![t] = "computed"]
  /\ UNCHANGED <<cnt, writer, readers, titer, got>>

\* compare_and_inc: the store of *counter += by
cas_write(t) ==
  /\ tpc[t] = "computed"
  /\ cnt' = tmp[t].sum
  /\ tpc' = [tpc EXCEPT ![t] = "written"]
  /\ UNCHANGED <<writer, readers, titer, tmp, got>>

\* compare_and_inc: the guard is dropped at the end of the call
cas_unlock(t) ==
  /\ tpc[t] \in {"written", "differs"}
  /\ writer' = NoThread
  /\ tmp' = [tmp EXCEPT ![t] = CasRest]
  /\ tpc' = [tpc EXCEPT ![t] = "loop"]
  /\ UNCHANGED <<cnt, readers, titer, got>>

NextCas ==
  \/ \E t \in Workers, test \in 0..MaxTest, by \in 1..MaxBy :
       cas_lock(t, test, by) /\ UNCHANGED <<listVars, rt, iterVars, bigVars, extVars>>
  \/ \E t \in Workers : cas_compare(t) /\ UNCHANGED <<listVars, rt, iterVars, bigVars, extVars>>
  \/ \E t \in Workers : cas_read(t) /\ UNCHANGED <<listVars, rt, iterVars, bigVars, extVars>>
  \/ \E t \in Workers : cas_write(t) /\ UNCHANGED <<listVars, rt, iterVars, bigVars, extVars>>
  \/ \E t \in Workers : cas_unlock(t) /\ UNCHANGED <<listVars, rt, iterVars, bigVars, extVars>>

InitCas ==
  /\ ListInit
  /\ rt = RtNone
  /\ NoIter
  /\ ExtOff
  /\ BigOff
  /\ CasInit

SpecCas == InitCas /\ [][NextCas]_vars

-----------------------------------------------------------------------------
\* The quicksort of solutions/src/rgrep.rs (lines 56-81).  A slice is an
\* offset and a length in sdata; calls still to be made wait in sstack, the
\* call on part1 before the call on part2.

Keys == 0..MaxKey
Slices == UNION {[1..n -> Keys] : n \in 0..MaxLen}

\* data[i] of the running call
At(i) == sdata[slo + i + 1]

\* Seeded fault: the first element is overwritten instead of exchanged.
swap_mut_copy(d, i, j) == [d EXCEPT ![slo + i + 1] = d[slo + j + 1]]
\* data.swap(i, j)
swap(d, i, j) ==
  [d EXCEPT ![slo + i + 1] = d[slo + j + 1], ![slo + j + 1] = d[slo + i + 1]]

SortInit ==
  /\ sorig \in Slices
  /\ sdata = sorig
  /\ sstack = <<<<0, Len(sorig)>>>>
  /\ slo = 0
  /\ slen = 0
  /\ lpos = 0
  /\ rpos = 0
  /\ spivot = 0
  /\ spc = "call"

\* sort is entered: if data.len() < 2 { return; }, else lpos and rpos are set
sort_enter ==
  /\ spc = "call"
  /\ sstack # <<>>
  /\ LET lo == Head(sstack)[1]
         len == Head(sstack)[2]
     IN /\ sstack' = Tail(sstack)
        /\ IF len < 2
             THEN /\ spc' = "call"
                  /\ UNCHANGED <<slo, slen, lpos, rpos, spivot>>
             ELSE /\ slo' = lo
                  /\ slen' = len
                  /\ lpos' = 1
                  /\ rpos' = len
                  /\ spivot' = sdata[lo + 1]
                  /\ spc' = "loop"
  /\ UNCHANGED <<sdata, sorig>>

\* loop {
sort_loop ==
  /\ spc = "loop"
  /\ spc' = "left"
  /\ UNCHANGED <<sdata, sorig, sstack, slo, slen, lpos, rpos, spivot>>

\* while lpos < rpos && data[lpos] <= data[0] { lpos += 1; }
sort_left ==
  /\ spc = "left"
  /\ IF lpos < rpos /\ At(lpos) <= At(0)
       THEN lpos' = lpos + 1 /\ spc' = spc
       ELSE lpos' = lpos /\ spc' = "right"
  /\ UNCHANGED <<sdata, sorig, sstack, slo, slen, rpos, spivot>>

\* while rpos > lpos && data[rpos-1] >= data[0] { rpos -= 1; }
sort_right ==
  /\ spc = "right"
  /\ IF rpos > lpos /\ At(rpos - 1) >= At(0)
       THEN rpos' = rpos - 1 /\ spc' = spc
       ELSE rpos' = rpos /\ spc' = "check"
  /\ UNCHANGED <<sdata, sorig, sstack, slo, slen, lpos, spivot>>

\* if rpos == lpos { break; }  data.swap(lpos, rpos-1);
sort_check ==
  /\ spc = "check"
  /\ IF rpos = lpos
       THEN sdata' = sdata /\ spc' = "finish"
       ELSE sdata' = swap(sdata, lpos, rpos - 1) /\ spc' = "loop"
  /\ UNCHANGED <<sorig, sstack, slo, slen, lpos, rpos, spivot>>

\* data.swap(0, lpos-1); split_at_mut(lpos); the two recursive calls
sort_finish ==
  /\ spc = "finish"
  /\ sdata' = swap(sdata, 0, lpos - 1)
  /\ sstack' = <<<<slo, lpos - 1>>, <<slo + lpos, slen - lpos>>>> \o sstack
  /\ spc' = "call"
  /\ UNCHANGED <<sorig, slo, slen, lpos, rpos, spivot>>

\* the outermost sort returns
sort_return ==
  /\ spc = "call"
  /\ sstack = <<>>
  /\ spc' = "done"
  /\ UNCHANGED <<sdata, sorig, sstack, slo, slen, lpos, rpos, spivot>>

NextSort ==
  \/ sort_enter /\ UNCHANGED <<listVars, rt, iterVars, bigVars, ctrVars, cbVars, grepVars>>
  \/ sort_loop /\ UNCHANGED <<listVars, rt, iterVars, bigVars, ctrVars, cbVars, grepVars>>
  \/ sort_left /\ UNCHANGED <<listVars, rt, iterVars, bigVars, ctrVars, cbVars, grepVars>>
  \/ sort_right /\ UNCHANGED <<listVars, rt, iterVars, bigVars, ctrVars, cbVars, grepVars>>
  \/ sort_check /\ UNCHANGED <<listVars, rt, iterVars, bigVars, ctrVars, cbVars, grepVars>>
  \/ sort_finish /\ UNCHANGED <<listVars, rt, iterVars, bigVars, ctrVars, cbVars, grepVars>>
  \/ sort_return /\ UNCHANGED <<listVars, rt, iterVars, bigVars, ctrVars, cbVars, grepVars>>

InitSort ==
  /\ ListInit
  /\ rt = RtNone
  /\ NoIter
  /\ BigOff
  /\ CounterOff
  /\ CallbacksOff
  /\ GrepOff
  /\ SortInit

\* The program runs on: a step that can be taken is taken.
SpecSort == InitSort /\ [][NextSort]_vars /\ WF_vars(NextSort)

-----------------------------------------------------------------------------
\* The callbacks of solutions/src/callbacks.rs as test_reentrant uses them:
\* a Callbacks inside c = Rc<RefCell<Callbacks>>, closures registered in it
\* that either print or call the Callbacks in c with val+val, and a clone of
\* it.  A cell is the Rc<RefCell<FnMut>> of one closure; a clone shares the
\* cells.

CbInit ==
  /\ cbcells = <<>>
  /\ cbclone = <<>>
  /\ cbcloned = FALSE
  /\ cbborrowed = {}
  /\ cbouter = FALSE
  /\ cbstack = <<>>
  /\ cbrunning = <<>>
  /\ cbran = <<>>
  /\ cbpanic = NoPanic

\* The program is between two statements of the test.
CbIdle == cbstack = <<>> /\ cbpanic = NoPanic

\* c.borrow_mut().register(closure)
cb_register(kind) ==
  /\ CbIdle
  /\ Len(cbcells) < MaxCbs
  /\ cbcells' = Append(cbcells, kind)
  /\ UNCHANGED <<cbclone, cbcloned, cbborrowed, cbouter, cbstack, cbrunning,
                 cbran, cbpanic>>

\* let mut c2: Callbacks = c.borrow().clone()
cb_clone ==
  /\ CbIdle
  /\ cbclone' = [i \in 1..Len(cbcells) |-> i]
  /\ cbcloned' = TRUE
  /\ UNCHANGED <<cbcells, cbborrowed, cbouter, cbstack, cbrunning, cbran, cbpanic>>

\* c2.call(val) on the clone, or c.borrow_mut().call(val) on the original
cb_call(on, val) ==
  /\ CbIdle
  /\ on = "clone" => cbcloned
  /\ cbouter' = (on = "c")
  /\ cbstack' = <<[on |-> on, idx |-> 1, val |-> val]>>
  /\ cbran' = <<>>
  /\ UNCHANGED <<cbcells, cbclone, cbcloned, cbborrowed, cbrunning, cbpanic>>

\* self.callbacks of the Callbacks a call runs on
CbList(on) == IF on = "clone" THEN cbclone ELSE [i \in 1..Len(cbcells) |-> i]
CbTop == cbstack[Len(cbstack)]
\* The cell the innermost call borrows next, Null at the end of its loop.
CbNextCell ==
  IF cbstack # <<>> /\ cbpanic = NoPanic /\ CbTop.idx <= Len(CbList(CbTop.on))
    THEN CbList(CbTop.on)[CbTop.idx]
    ELSE Null

\* Seeded fault: the cell hands out a second mutable borrow.
borrow_mut_mut_unchecked(cell) == TRUE
\* RefCell::borrow_mut succeeds if the cell is not borrowed
borrow_mut(cell) == cell \notin cbborrowed

\* One iteration of the loop of call: callback.borrow_mut(), then the closure.
\* A printing closure returns at once; a nested one borrows c and calls.
cb_invoke ==
  /\ CbNextCell # Null
  /\ Len(cbstack) < MaxDepth
  /\ LET cell == CbNextCell
         val == CbTop.val
     IN IF ~borrow_mut(cell)
          THEN /\ cbpanic' = "closure already borrowed"
               /\ UNCHANGED <<cbborrowed, cbouter, cbstack, cbrunning, cbran>>
          ELSE IF cbcells[cell] = "print"
            THEN /\ cbran' = Append(cbran, <<cell, val>>)
                 /\ cbstack' = [cbstack EXCEPT ![Len(cbstack)].idx = @ + 1]
                 /\ UNCHANGED <<cbborrowed, cbouter, cbrunning, cbpanic>>
            ELSE /\ cbborrowed' = cbborrowed \cup {cell}
                 /\ cbrunning' = Append(cbrunning, cell)
                 /\ cbran' = Append(cbran, <<cell, val>>)
                 /\ IF cbouter
                      THEN /\ cbpanic' = "Callbacks already borrowed"
                           /\ UNCHANGED <<cbouter, cbstack>>
                      ELSE /\ cbouter' = TRUE
                           /\ cbstack' = Append(cbstack,
                                [on |-> "c", idx |-> 1, val |-> val + val])
                           /\ cbpanic' = NoPanic
  /\ UNCHANGED <<cbcells, cbclone, cbcloned>>

\* The loop of call is over: call returns, to the closure that made the
\* call, which returns and is released, or to the test.
cb_return ==
  /\ cbstack # <<>>
  /\ cbpanic = NoPanic
  /\ CbNextCell = Null
  /\ cbstack' =
       IF Len(cbstack) = 1 THEN <<>>
       ELSE [SubSeq(cbstack, 1, Len(cbstack) - 1)
               EXCEPT ![Len(cbstack) - 1].idx = @ + 1]
  /\ cbouter' = FALSE
  /\ IF Len(cbstack) = 1
       THEN UNCHANGED <<cbborrowed, cbrunning>>
       ELSE /\ cbborrowed' = cbborrowed \ {cbrunning[Len(cbrunning)]}
            /\ cbrunning' = SubSeq(cbrunning, 1, Len(cbrunning) - 1)
  /\ UNCHANGED <<cbcells, cbclone, cbcloned, cbran, cbpanic>>

NextCb ==
  \/ \E kind \in {"print", "nested"} :
       cb_register(kind) /\ UNCHANGED <<listVars, rt, iterVars, bigVars, ctrVars, sortVars, grepVars>>
  \/ cb_clone /\ UNCHANGED <<listVars, rt, iterVars, bigVars, ctrVars, sortVars, grepVars>>
  \/ \E on \in {"clone", "c"}, val \in Data :
       cb_call(on, val) /\ UNCHANGED <<listVars, rt, iterVars, bigVars, ctrVars, sortVars, grepVars>>
  \/ cb_invoke /\ UNCHANGED <<listVars, rt, iterVars, bigVars, ctrVars, sortVars, grepVars>>
  \/ cb_return /\ UNCHANGED <<listVars, rt, iterVars, bigVars, ctrVars, sortVars, grepVars>>

InitCb ==
  /\ ListInit
  /\ rt = RtNone
  /\ NoIter
  /\ BigOff
  /\ CounterOff
  /\ SortOff
  /\ GrepOff
  /\ CbInit

SpecCb == InitCb /\ [][NextCb]_vars

-----------------------------------------------------------------------------
\* The pipeline of solutions/src/rgrep.rs: read_files, filter_lines and
\* output_lines run as three threads joined by two bounded channels.  A
\* string is a sequence of characters; a Line is <<data, file, line>>.

\* sync_channel(16)
ChanCap == 16

\* The lines a file can hold and the patterns looked for, over the
\* characters 1 and 2.
Texts == {<<2>>, <<2, 1>>, <<1, 2>>}
Patterns == {<<1>>, <<1, 2>>}
Modes == {"Print", "SortAndPrint", "Count"}

RECURSIVE FilesOf(_, _)
\* The contents of n files that hold k lines in all.
FilesOf(n, k) ==
  IF n = 0 THEN (IF k = 0 THEN {<<>>} ELSE {})
  ELSE UNION {{<<f>> \o rest : f \in [1..j -> Texts], rest \in FilesOf(n - 1, k - j)}
              : j \in 0..k}

\* str::contains
Contains(data, pat) ==
  \E i \in 0..(Len(data) - Len(pat)) : SubSeq(data, i + 1, i + Len(pat)) = pat

\* Seeded fault: only a line that starts with the pattern is passed on.
filter_mut_starts_with(data) ==
  Len(data) >= Len(gpattern) /\ SubSeq(data, 1, Len(gpattern)) = gpattern
\* filter_lines: line.data.contains(&options.pattern)
filter_contains(data) == Contains(data, gpattern)

\* String::partial_cmp: a <= b in the lexicographic order
RECURSIVE StrLeq(_, _)
StrLeq(a, b) ==
  IF a = <<>> THEN TRUE
  ELSE IF b = <<>> THEN FALSE
  ELSE IF a[1] # b[1] THEN a[1] < b[1]
  ELSE StrLeq(Tail(a), Tail(b))

\* sort on a Vec<Line>, which compares the data of the lines: the two inner
\* loops, the partition loop and the recursion of sort (lines 56-81).
RECURSIVE sort_lpos(_, _, _)
sort_lpos(d, l, r) ==
  IF l < r /\ StrLeq(d[l + 1][1], d[1][1]) THEN sort_lpos(d, l + 1, r) ELSE l
RECURSIVE sort_rpos(_, _, _)
sort_rpos(d, l, r) ==
  IF r > l /\ StrLeq(d[1][1], d[r][1]) THEN sort_rpos(d, l, r - 1) ELSE r
SwapAt(d, i, j) == [d EXCEPT ![i + 1] = d[j + 1], ![j + 1] = d[i + 1]]
RECURSIVE sort_partition(_, _, _)
sort_partition(d, l, r) ==
  LET l2 == sort_lpos(d, l, r)
      r2 == sort_rpos(d, l2, r)
  IN IF r2 = l2 THEN <<d, l2>>
     ELSE sort_partition(SwapAt(d, l2, r2 - 1), l2, r2)
RECURSIVE sort_lines(_)
sort_lines(d) ==
  IF Len(d) < 2 THEN d
  ELSE LET p == sort_partition(d, 1, Len(d))
           l == p[2]
           d1 == SwapAt(p[1], 0, l - 1)
       IN sort_lines(SubSeq(d1, 1, l - 1)) \o <<d1[l]>>
            \o sort_lines(SubSeq(d1, l + 1, Len(d1)))

GrepThreads == {"read_files", "filter_lines", "output_lines"}

GrepInit ==
  /\ gfiles \in UNION {FilesOf(n, k) : n \in 0..MaxFiles, k \in 0..MaxLines}
  /\ gpattern \in Patterns
  /\ gmode \in Modes
  /\ gread = <<0, 0>>
  /\ gchan1 = <<>>
  /\ gclosed1 = FALSE
  /\ gline = None
  /\ gchan2 = <<>>
  /\ gclosed2 = FALSE
  /\ grecv = <<>>
  /\ gprinted = <<>>
  /\ gpc = [t \in GrepThreads |-> "run"]

\* read_files: the inner loop is over and the next file is opened
read_next_file ==
  /\ gpc["read_files"] = "run"
  /\ gread[1] < Len(gfiles)
  /\ gread[2] >= Len(gfiles[gread[1] + 1])
  /\ gread' = <<gread[1] + 1, 0>>
  /\ UNCHANGED <<gfiles, gpattern, gmode, gchan1, gclosed1, gline, gchan2,
                 gclosed2, grecv, gprinted, gpc>>

\* read_files: out_channel.send(Line { data, file: fileidx, line: lineidx }),
\* which waits while the channel is full
read_send ==
  /\ gpc["read_files"] = "run"
  /\ gread[1] < Len(gfiles)
  /\ gread[2] < Len(gfiles[gread[1] + 1])
  /\ Len(gchan1) < ChanCap
  /\ gchan1' = Append(gchan1, <<gfiles[gread[1] + 1][gread[2] + 1], gread[1], gread[2]>>)
  /\ gread' = <<gread[1], gread[2] + 1>>
  /\ UNCHANGED <<gfiles, gpattern, gmode, gclosed1, gline, gchan2, gclosed2,
                 grecv, gprinted, gpc>>

\* read_files returns after the last file: line_sender is dropped
read_end ==
  /\ gpc["read_files"] = "run"
  /\ gread[1] >= Len(gfiles)
  /\ gclosed1' = TRUE
  /\ gpc' = [gpc EXCEPT !["read_files"] = "done"]
  /\ UNCHANGED <<gfiles, gpattern, gmode, gread, gchan1, gline, gchan2,
                 gclosed2, grecv, gprinted>>

\* filter_lines: in_channel.iter() yields the oldest line of the channel
filter_recv ==
  /\ gpc["filter_lines"] = "run"
  /\ gline = None
  /\ gchan1 # <<>>
  /\ gline' = Some(Head(gchan1))
  /\ gchan1' = Tail(gchan1)
  /\ UNCHANGED <<gfiles, gpattern, gmode, gread, gclosed1, gchan2, gclosed2,
                 grecv, gprinted, gpc>>

\* filter_lines: if line.data.contains(&options.pattern) the line is sent on,
\* which waits while the channel is full
filter_send ==
  /\ gpc["filter_lines"] = "run"
  /\ gline # None
  /\ IF filter_contains(gline[1][1])
       THEN /\ Len(gchan2) < ChanCap
            /\ gchan2' = Append(gchan2, gline[1])
       ELSE gchan2' = gchan2
  /\ gline' = None
  /\ UNCHANGED <<gfiles, gpattern, gmode, gread, gchan1, gclosed1, gclosed2,
                 grecv, gprinted, gpc>>

\* filter_lines: the channel is empty and its sender is gone, the loop ends
\* and filtered_sender is dropped
filter_end ==
  /\ gpc["filter_lines"] = "run"
  /\ gline = None
  /\ gchan1 = <<>>
  /\ gclosed1
  /\ gclosed2' = TRUE
  /\ gpc' = [gpc EXCEPT !["filter_lines"] = "done"]
  /\ UNCHANGED <<gfiles, gpattern, gmode, gread, gchan1, gclosed1, gline,
                 gchan2, grecv, gprinted>>

\* output_lines: in_channel.iter() yields the oldest line; Print prints it,
\* Count counts it, SortAndPrint collects it
output_recv ==
  /\ gpc["output_lines"] = "run"
  /\ gchan2 # <<>>
  /\ grecv' = Append(grecv, Head(gchan2))
  /\ gchan2' = Tail(gchan2)
  /\ gprinted' = IF gmode = "Print" THEN Append(gprinted, Head(gchan2)) ELSE gprinted
  /\ UNCHANGED <<gfiles, gpattern, gmode, gread, gchan1, gclosed1, gline,
                 gclosed2, gpc>>

\* output_lines: the channel is empty and its sender is gone; Count prints
\* the count, SortAndPrint sorts what it collected and prints it
output_end ==
  /\ gpc["output_lines"] = "run"
  /\ gchan2 = <<>>
  /\ gclosed2
  /\ gprinted' = CASE gmode = "Print" -> gprinted
                   [] gmode = "Count" -> <<Len(grecv)>>
                   [] OTHER -> sort_lines(grecv)
  /\ gpc' = [gpc EXCEPT !["output_lines"] = "done"]
  /\ UNCHANGED <<gfiles, gpattern, gmode, gread, gchan1, gclosed1, gline,
                 gchan2, gclosed2, grecv>>

NextGrep ==
  \/ read_next_file /\ UNCHANGED <<listVars, rt, iterVars, bigVars, ctrVars, sortVars, cbVars>>
  \/ read_send /\ UNCHANGED <<listVars, rt, iterVars, bigVars, ctrVars, sortVars, cbVars>>
  \/ read_end /\ UNCHANGED <<listVars, rt, iterVars, bigVars, ctrVars, sortVars, cbVars>>
  \/ filter_recv /\ UNCHANGED <<listVars, rt, iterVars, bigVars, ctrVars, sortVars, cbVars>>
  \/ filter_send /\ UNCHANGED <<listVars, rt, iterVars, bigVars, ctrVars, sortVars, cbVars>>
  \/ filter_end /\ UNCHANGED <<listVars, rt, iterVars, bigVars, ctrVars, sortVars, cbVars>>
  \/ output_recv /\ UNCHANGED <<listVars, rt, iterVars, bigVars, ctrVars, sortVars, cbVars>>
  \/ output_end /\ UNCHANGED <<listVars, rt, iterVars, bigVars, ctrVars, sortVars, cbVars>>

InitGrep ==
  /\ ListInit
  /\ rt = RtNone
  /\ NoIter
  /\ BigOff
  /\ CounterOff
  /\ SortOff
  /\ CallbacksOff
  /\ GrepInit

SpecGrep == InitGrep /\ [][NextGrep]_vars

-----------------------------------------------------------------------------
\* Observations of the heap used by the properties.

\* The nodes met from p by following one link field, at most fuel of them.
RECURSIVE Chain(_, _, _)
Chain(p, field, fuel) ==
  IF p = Null \/ fuel = 0 THEN <<>>
  ELSE <<p>> \o Chain(IF field = "next" THEN mem[p].next ELSE mem[p].prev,
                      field, fuel - 1)

Fwd == Chain(first, "next", MaxNodes + 1)
Bwd == Chain(last, "prev", MaxNodes + 1)
Range(f) == {f[i] : i \in DOMAIN f}
ListNodes == Range(Fwd) \cup Range(Bwd)
\* The payloads read from first along next.
Contents == [i \in 1..Len(Fwd) |-> mem[Fwd[i]].data]
\* Every handle the list stores: first, last and the links of its nodes.
Handles ==
  {first, last} \cup {mem[m].next : m \in Range(Fwd)}
                \cup {mem[m].prev : m \in Range(Fwd)}
Pops == {"pop_back", "pop_front"}

\* C1: between operations, with n >= 1 elements, following next from first
\* visits exactly n nodes, the n-th being last with next == null, and
\* following prev from last visits exactly n nodes, the n-th being first
\* with prev == null.
C1_ChainBothWays ==
  (pc = "idle" /\ Len(s) >= 1) =>
    LET n == Len(s)
    IN /\ Len(Fwd) = n
       /\ Fwd[n] = last
       /\ mem[last].next = Null
       /\ Len(Bwd) = n
       /\ Bwd[n] = first
       /\ mem[first].prev = Null
C1_Witness ==
  /\ pc = "idle" /\ anyPop /\ Len(s) >= 3
  /\ Len(Fwd) = Len(s) /\ Fwd[Len(s)] = last /\ Bwd[Len(s)] = first

\* C2: between operations the links agree: every list node other than last
\* has a next node whose prev is that node, and every list node other than
\* first has a prev node whose next is that node.
C2_LinksAgree ==
  pc = "idle" =>
    \A m \in ListNodes :
      /\ m # last => (mem[m].next # Null /\ mem[mem[m].next].prev = m)
      /\ m # first => (mem[m].prev # Null /\ mem[mem[m].prev].next = m)
C2_Witness ==
  /\ pc = "idle" /\ anyPop /\ Len(s) >= 3
  /\ \E m \in ListNodes :
       /\ m # first /\ m # last
       /\ mem[mem[m].next].prev = m /\ mem[mem[m].prev].next = m

\* C3: between operations first is null exactly when last is null, and no
\* debug_assert of push_back or push_front has failed.
C3_EmptinessCoherent ==
  pc = "idle" => ((first = Null <=> last = Null) /\ "assert" \notin faults)
C3_Witness ==
  /\ pc = "idle" /\ anyPop /\ lastOp = "push_front" /\ Len(s) >= 2
  /\ first # Null /\ last # Null

\* C4: between operations every non-null handle stored in first, last or a
\* link of a node reachable from first names a cell that is allocated and
\* not freed, and no operation has dereferenced or released a freed cell.
C4_HandlesLive ==
  /\ pc = "idle" => Handles \subseteq live \cup {Null}
  /\ faults \cap {"use_after_free", "double_free"} = {}
C4_Witness ==
  /\ pc = "idle" /\ lastOp \in Pops /\ ret # None
  /\ Cardinality(live) >= 2 /\ Cardinality(live) < MaxNodes
  /\ Handles = live \cup {Null}

\* C5: the list refines a double-ended queue: the payloads along next from
\* first are the abstract sequence, and every pop returned what the abstract
\* deque returns (Some of the end element, None on empty).
C5_RefinesDeque ==
  pc = "idle" => (Contents = s /\ ret = aret)
C5_Witness ==
  /\ pc = "idle" /\ lastOp = "pop_back" /\ ret # None /\ ret = aret
  /\ Len(s) >= 2 /\ s[1] # s[2] /\ Contents = s

\* C6: in a run of pushes at one end followed by pops from that same end,
\* the i-th pop returns Some of the i-th most recently pushed value.
C6_StackPerEnd ==
  \A i \in 1..Len(run.popped) :
    run.popped[i] = Some(run.pushed[Len(run.pushed) - i + 1])
C6_Witness ==
  /\ run.end = "back" /\ Len(run.pushed) >= 2
  /\ Len(run.popped) = Len(run.pushed)
  /\ run.pushed[1] # run.pushed[2]
  /\ s # <<>>

\* C7: after only push_back calls x1..xk on an empty list, the i-th pop_front
\* returns Some(xi) for i <= k and the pop_front after those returns None.
C7_QueueOrder ==
  q.mode \in {"fill", "drain"} =>
    \A i \in 1..Len(q.popped) :
      q.popped[i] = IF i <= Len(q.pushed) THEN Some(q.pushed[i]) ELSE None
C7_Witness ==
  /\ q.mode = "drain" /\ Len(q.pushed) >= 2
  /\ Len(q.popped) = Len(q.pushed) + 1
  /\ q.pushed[1] # q.pushed[2]

\* C8: when a list built by pushes alone (n of them, n >= 0) has been
\* dropped, drop released n pairwise distinct cells and destroyed the n
\* payloads, no cell stays allocated and none was released twice.
C8_DropFreesAll ==
  (pc = "dropped" /\ ~anyPop) =>
    /\ live = {}
    /\ Len(dropFreed) = Len(s)
    /\ Cardinality(Range(dropFreed)) = Len(dropFreed)
    /\ dropData = s
    /\ faults \cap {"use_after_free", "double_free"} = {}
C8_Witness ==
  /\ pc = "dropped" /\ ~anyPop /\ Len(s) >= 3
  /\ run.end = "front" /\ Len(run.pushed) < Len(s)
  /\ Len(dropFreed) = Len(s) /\ live = {}

\* C9: a pop on the empty list returns None and changes neither first and
\* last (both null) nor any cell or its allocation.
C9_PopEmptyNoop ==
  [][(s = <<>> /\ lastOp' \in Pops) =>
       /\ ret' = None
       /\ first = Null /\ last = Null
       /\ first' = Null /\ last' = Null
       /\ mem' = mem /\ live' = live /\ live = {}]_vars
C9_Witness ==
  /\ lastOp \in Pops /\ aret = None /\ ret = None /\ anyPop
  /\ run.end = "none" /\ q.mode = "drain" /\ Len(q.popped) > Len(q.pushed)
  /\ first = Null /\ last = Null

\* C10: a pop at either end of a one-element list returns that element and
\* leaves the list empty, first and last both null.
C10_PopLastElement ==
  [][(Len(s) = 1 /\ lastOp' \in Pops) =>
       /\ ret' = Some(s[1])
       /\ first' = Null /\ last' = Null /\ live' = {}]_vars
C10_Witness ==
  /\ lastOp \in Pops /\ aret # None /\ ret = aret /\ s = <<>>
  /\ first = Null /\ last = Null /\ live = {}

\* C11: push_back(x) immediately followed by pop_back() returns Some(x) and
\* leaves first, last, every cell (so the remaining nodes, their order,
\* links and payloads) and the set of allocated cells as before the push.
C11_PushPopBackRoundTrip ==
  rt.phase = "popped" =>
    /\ ret = Some(rt.x)
    /\ first = rt.first /\ last = rt.last
    /\ mem = rt.mem /\ live = rt.live
C11_Witness ==
  /\ rt.phase = "popped" /\ ret = Some(rt.x) /\ Len(s) >= 2
  /\ first # last /\ mem = rt.mem /\ lastOp = "pop_back"

\* C12: an iterator over a list of n elements yields the first, second, ...
\* node from the front with its payload, never more than n of them, reports
\* exhaustion only after n of them, and after n of them its cursor is null,
\* so that the next call reports exhaustion.
C12_IterYieldsAll ==
  pc = "iterating" =>
    /\ Len(yielded) <= Len(s)
    /\ Len(Fwd) >= Len(yielded)
    /\ \A i \in 1..Len(yielded) :
         yielded[i] = Fwd[i] /\ mem[yielded[i]].data = s[i]
    /\ it_ret = None => Len(yielded) = Len(s)
    /\ Len(yielded) = Len(s) <=> it_next = Null
    /\ it_ret \notin {NotCalled, None} =>
         (yielded # <<>> /\ it_ret = Some(yielded[Len(yielded)]))
C12_Witness ==
  /\ pc = "iterating" /\ it_ret = None /\ anyPop
  /\ Len(s) >= 3 /\ Len(yielded) = Len(s) /\ s[1] # s[2]

\* C13: the references one traversal yields name pairwise distinct nodes; a
\* write through the i-th changes the payload of the i-th node from the
\* front and nothing else in the heap or the list, and the payloads along
\* next stay those of the abstract sequence, which every pop returns.
C13_IterWriteFrame ==
  [][/\ Cardinality(Range(yielded')) = Len(yielded')
     /\ wr' # <<>> =>
          /\ Len(Fwd) >= wr'[1]
          /\ yielded[wr'[1]] = Fwd[wr'[1]]
          /\ mem' = [mem EXCEPT ![Fwd[wr'[1]]].data = wr'[2]]
          /\ first' = first /\ last' = last /\ live' = live
          /\ Contents' = [Contents EXCEPT ![wr'[1]] = wr'[2]]
     /\ pc' \in {"idle", "iterating"} => (Contents' = s' /\ ret' = aret')
    ]_vars
C13_Witness ==
  /\ pc = "iterating" /\ wr # <<>> /\ wr[1] = 2 /\ Len(yielded) >= 3
  /\ s[2] = wr[2] /\ s[1] # s[2] /\ Contents = s

\* C14: on an empty list, fresh or emptied by pops, the iterator's cursor
\* starts null and every call of next, the first included, returns None.
C14_IterEmpty ==
  (pc = "iterating" /\ s = <<>>) =>
    /\ it_next = Null
    /\ yielded = <<>>
    /\ it_ret \in {NotCalled, None}
C14_Witness ==
  /\ pc = "iterating" /\ s = <<>> /\ it_ret = None
  /\ anyPop /\ lastOp \in Pops /\ aret # None

\* C15: while an iterator is alive the list is not pushed to, popped from or
\* dropped: first, last, the allocated cells and every link stay as they
\* are; the cursor is null or an allocated cell, and no call of next has
\* read a freed cell.
C15_IterBorrow ==
  [][pc = "iterating" =>
       /\ it_next \in live \cup {Null}
       /\ first' = first /\ last' = last /\ live' = live
       /\ \A a \in Addr : /\ mem'[a].next = mem[a].next
                          /\ mem'[a].prev = mem[a].prev
       /\ Len(s') = Len(s)
       /\ pc' \in {"iterating", "idle"}
       /\ "use_after_free" \notin faults']_vars
C15_Witness ==
  /\ pc = "iterating" /\ anyPop /\ Len(yielded) = 2 /\ Len(s) >= 3
  /\ it_next \in live /\ it_ret = Some(yielded[2])

\* C16: between operations the allocated cells are exactly the nodes met
\* from first along next, each met once; the node a pop removes was
\* allocated, is no longer met from first nor named by any handle of the
\* list after the pop, and is the one cell the pop releases, once.
C16_SingleOwner ==
  [][/\ pc' = "idle" =>
          /\ live' = Range(Fwd')
          /\ Cardinality(Range(Fwd')) = Len(Fwd')
          /\ Len(Fwd') <= MaxNodes
     /\ (lastOp' \in Pops /\ s # <<>>) =>
          LET n == IF lastOp' = "pop_back" THEN last ELSE first
          IN /\ n \in live
             /\ live' = live \ {n}
             /\ n \notin Range(Fwd')
             /\ n \notin Handles'
             /\ "double_free" \notin faults'
    ]_vars
C16_Witness ==
  /\ pc = "idle" /\ lastOp \in Pops /\ aret # None /\ Len(s) >= 2
  /\ live = Range(Fwd) /\ Cardinality(live) = Len(s)

\* The number a BigInt stands for.
RECURSIVE Value(_)
Value(data) == IF data = <<>> THEN 0 ELSE data[1] + Base * Value(Tail(data))

\* C17: every BigInt produced by new, from_vec, power_of_2, inc1, inc, + or -
\* has an empty digit vector or a last block that is not 0.
C17_RepInvariant ==
  test_invariant(acc)

\* C18: for a and b that satisfy the representation invariant, a + b stands
\* for value(a) + value(b) in canonical digits, whatever the order of the
\* operands and the order in which a third summand is added.
C18_AddIsSum ==
  (bop = "add" /\ test_invariant(bprev) /\ test_invariant(barg)) =>
    /\ bpanic = NoPanic
    /\ \A i \in 1..Len(acc) : acc[i] \in Word
    /\ test_invariant(acc)
    /\ Value(acc) = Value(bprev) + Value(barg)
    /\ acc = add(barg, bprev)
    /\ \A c \in Args :
         /\ add(acc, c) = add(bprev, add(barg, c))
         /\ add(acc, c) = add(add(bprev, c), barg)
         /\ add(acc, c) = add(c, acc)

\* An addition whose carry went through a whole block into a new one.
C18_Witness ==
  /\ bop = "add"
  /\ test_invariant(bprev)
  /\ barg # <<>>
  /\ Len(bprev) = 2
  /\ Len(acc) = 3
  /\ acc[1] < bprev[1]
  /\ acc[2] < bprev[2]

\* C19: for a and b that satisfy the representation invariant, a - b panics
\* with "Wrapping subtraction of BigInt" exactly when value(a) < value(b), and
\* otherwise is value(a) - value(b) without trailing zero blocks.
C19_SubPanicsOrDiff ==
  (bop = "sub" /\ test_invariant(bprev) /\ test_invariant(barg)) =>
    /\ bpanic \in {NoPanic, "Wrapping subtraction of BigInt"}
    /\ bpanic # NoPanic <=> Value(bprev) < Value(barg)
    /\ bpanic = NoPanic =>
         /\ Value(acc) = Value(bprev) - Value(barg)
         /\ \A i \in 1..Len(acc) : acc[i] \in Word
         /\ test_invariant(acc)

\* A subtraction that borrowed from the last block and left it 0.
C19_Witness ==
  /\ bop = "sub"
  /\ bpanic = NoPanic
  /\ test_invariant(bprev)
  /\ test_invariant(barg)
  /\ Len(bprev) = 2
  /\ Len(barg) >= 1
  /\ bprev[1] < barg[1]
  /\ Len(acc) = 1

\* What the finished increments add up to.
Incremented == InitialValue + By1 * titer["handle1"] + By2 * titer["handle2"]

\* C20: no increment is lost: an increment reads and writes the value while
\* it alone holds the lock, the value is the initial one plus every finished
\* by whenever no increment is under way, get() returns 50 once both threads
\* of main have been joined, and the values get() returns never decrease.
C20_NoLostIncrement ==
  [][/\ got' >= got
     /\ \A t \in Workers :
          tpc'[t] \in {"locked", "computed", "written"} =>
            /\ writer' = t
            /\ readers' = {}
            /\ \A u \in Workers \ {t} : tpc'[u] \in {"loop", "done"}
     /\ writer' = NoThread => cnt' = Incremented'
     /\ tpc'[Main] = "end" =>
          /\ got' = InitialValue + Iters1 * By1 + Iters2 * By2
          /\ got' = 50
    ]_vars

\* main has joined both threads and printed the final value.
C20_Witness ==
  /\ bop = "off"
  /\ tpc # <<>>
  /\ tpc[Main] = "end"
  /\ titer["handle1"] = Iters1
  /\ titer["handle2"] = Iters2
  /\ got = cnt

\* The states of a thread inside compare_and_inc.
CasSection == {"locked", "equal", "differs", "computed", "written"}

\* C21: compare_and_inc(test, by) holds the write lock alone from the
\* comparison to the addition, so only the calling thread changes the value
\* meanwhile; at its end the value is the one it found plus by if that was
\* test, and the one it found otherwise.
C21_CompareAndInc ==
  [][\A t \in Workers :
       /\ tpc[t] \in CasSection =>
            /\ writer = t
            /\ readers = {}
            /\ cnt' # cnt => tpc'[t] # tpc[t]
       /\ (tpc[t] \in CasSection /\ tpc'[t] = "loop") =>
            /\ cnt' = cnt
            /\ cnt = IF tmp[t].entry = tmp[t].test
                       THEN tmp[t].entry + tmp[t].by
                       ELSE tmp[t].entry
    ]_vars

\* A call that found the largest value it can test for and has added by.
C21_Witness ==
  /\ tpc # <<>>
  /\ \E t \in Workers :
       /\ tpc[t] = "written"
       /\ tmp[t].entry = tmp[t].test
       /\ tmp[t].test > MaxTest - 1
       /\ cnt = tmp[t].test + tmp[t].by

\* How often x occurs in the sequence f.
Count(f, x) == Cardinality({i \in 1..Len(f) : f[i] = x})

\* C22: sort ends with the slice in non-decreasing order, holding what it
\* held at the start; at each start of an iteration of the partition loop
\* data[0] is the pivot, the elements between index 0 and lpos are <= pivot,
\* those from rpos on are >= pivot, and lpos < rpos.
C22_SortCorrect ==
  /\ <>(spc = "done")
  /\ [](spc = "done" =>
          /\ \A i \in 1..(Len(sdata) - 1) : sdata[i] <= sdata[i + 1]
          /\ Len(sdata) = Len(sorig)
          /\ \A x \in Keys : Count(sdata, x) = Count(sorig, x))
  /\ [](spc = "loop" =>
          /\ At(0) = spivot
          /\ \A i \in 1..(lpos - 1) : At(i) <= spivot
          /\ \A i \in rpos..(slen - 1) : At(i) >= spivot
          /\ lpos < rpos)

\* A sorted slice of three or more elements that was given in strictly
\* decreasing order.
C22_Witness ==
  /\ spc = "done"
  /\ Len(sorig) > 2
  /\ \A i \in 1..(Len(sorig) - 1) : sorig[i] > sorig[i + 1]
  /\ sdata # sorig

C24_DropWalk ==
  [][/\ (pc = "idle" /\ pc' = "dropping") =>
          /\ cur_ptr' = first
          /\ dropFreed' = <<>>
     /\ (pc = "dropping" /\ pc' = "dropping") =>
          /\ cur_ptr \in live
          /\ cur_ptr \notin Range(dropFreed)
          /\ dropFreed' = Append(dropFreed, cur_ptr)
          /\ live' = live \ {cur_ptr}
          /\ cur_ptr' = mem[cur_ptr].next
          /\ faults' = faults
     /\ (pc = "dropping" /\ pc' = "dropped") =>
          /\ cur_ptr = Null
          /\ Len(dropFreed) = Len(s)
          /\ Cardinality(Range(dropFreed)) = Len(s)
          /\ live = {}
          /\ faults \cap {"use_after_free", "double_free"} = {}
    ]_vars

\* The drop of a list of three elements that pushes and pops had built.
C24_Witness ==
  /\ pc = "dropped"
  /\ anyPop
  /\ Len(s) = 3
  /\ Len(dropFreed) = 3
  /\ dropFreed[1] = first

\* The cells that are in the list before and after the step keep their
\* payload and every link but the given field of the given cell.
KeepsNodes(field, cell) ==
  \A p \in live \cap live' :
    /\ mem'[p].data = mem[p].data
    /\ (field = "next" /\ p = cell) \/ mem'[p].next = mem[p].next
    /\ (field = "prev" /\ p = cell) \/ mem'[p].prev = mem[p].prev

\* C25: push_back and pop_back change at most last, the next field of the
\* old or new tail and, when the list was or becomes empty, first;
\* push_front and pop_front change at most first, the prev field of the old
\* or new head and, on an empty list, last; payloads and all other links of
\* the nodes that stay are unchanged.
C25_EndFrame ==
  [][/\ lastOp' = "push_back" =>
          /\ first' # first => first = Null
          /\ KeepsNodes("next", last)
          /\ live \subseteq live'
     /\ lastOp' = "pop_back" =>
          /\ first' # first => last' = Null
          /\ KeepsNodes("next", last')
          /\ live' \subseteq live
     /\ lastOp' = "push_front" =>
          /\ last' # last => last = Null
          /\ KeepsNodes("prev", first)
          /\ live \subseteq live'
     /\ lastOp' = "pop_front" =>
          /\ last' # last => first' = Null
          /\ KeepsNodes("prev", first')
          /\ live' \subseteq live
    ]_vars

\* A pop_front that left two nodes, whose links to each other are intact.
C25_Witness ==
  /\ lastOp = "pop_front"
  /\ pc = "idle"
  /\ ret # None
  /\ Len(s) = 2
  /\ first # last
  /\ mem[first].next = last
  /\ mem[first].prev = Null

\* The list as a value: the two handles, the cells and the allocated cells.
ListState == [first |-> first, last |-> last, mem |-> mem, live |-> live]

\* mirror(S): first and last exchanged, next and prev of every cell exchanged
Mirror(S) ==
  [first |-> S.last,
   last |-> S.first,
   mem |-> [a \in Addr |-> Node(S.mem[a].data, S.mem[a].prev, S.mem[a].next)],
   live |-> S.live]

\* push_back(t) on the list S, the new node allocated in the cell new_
PushBackOn(S, t, new_) ==
  LET m1 == [S.mem EXCEPT ![new_] = Node(t, Null, S.last)]
  IN [first |-> IF S.last = Null THEN new_ ELSE S.first,
      last |-> new_,
      mem |-> IF S.last = Null THEN m1 ELSE [m1 EXCEPT ![S.last].next = new_],
      live |-> S.live \cup {new_}]

\* pop_back on the list S: <<the result, the list afterwards>>
PopBackOn(S) ==
  IF S.last = Null THEN <<None, S>>
  ELSE LET new_last == S.mem[S.last].prev
           m1 == IF new_last = Null THEN S.mem
                 ELSE [S.mem EXCEPT ![new_last].next = Null]
       IN <<Some(S.mem[S.last].data),
            [first |-> IF new_last = Null THEN new_last ELSE S.first,
             last |-> new_last,
             mem |-> raw_into_box(m1, S.last),
             live |-> S.live \ {S.last}]>>

\* C26: push_front(x) on S yields mirror(push_back(x) on mirror(S)), and
\* pop_front on S returns what pop_back returns on mirror(S) and yields the
\* mirror of the list pop_back leaves, push_back and pop_back being the
\* operations of the list themselves.
C26_FrontMirrorsBack ==
  [][/\ lastOp' = "push_back" =>
          \E new_ \in live' \ live :
            ListState' = PushBackOn(ListState, mem'[new_].data, new_)
     /\ lastOp' = "pop_back" =>
          <<ret', ListState'>> = PopBackOn(ListState)
     /\ lastOp' = "push_front" =>
          \E new_ \in live' \ live :
            ListState' =
              Mirror(PushBackOn(Mirror(ListState), mem'[new_].data, new_))
     /\ lastOp' = "pop_front" =>
          /\ ret' = PopBackOn(Mirror(ListState))[1]
          /\ ListState' = Mirror(PopBackOn(Mirror(ListState))[2])
    ]_vars

\* A push_front onto a list of two nodes.
C26_Witness ==
  /\ lastOp = "push_front"
  /\ pc = "idle"
  /\ Len(s) = 3
  /\ mem[first].next # Null
  /\ mem[mem[first].next].prev = first
  /\ Mirror(ListState).last = first

\* The positions in which an iterator or a for_each holds the list.
Traversing == {"iterating", "for_each"}

\* C27: iter_mut, every call of next and every step of for_each allocate
\* and release no cell and leave first, last and every next and prev link
\* as they are, reading no released cell; when for_each returns, its closure
\* was given the payload of each node once, from the front to the back.
C27_TraversalFrame ==
  [][/\ (pc \in Traversing \/ pc' \in Traversing) =>
          /\ live' = live
          /\ first' = first
          /\ last' = last
          /\ \A a \in Addr : /\ mem'[a].next = mem[a].next
                             /\ mem'[a].prev = mem[a].prev
          /\ "use_after_free" \notin faults'
     /\ pc = "for_each" =>
          /\ Len(yielded) <= Len(Fwd)
          /\ \A i \in 1..Len(yielded) : yielded[i] = Fwd[i]
          /\ pc' = "idle" => Len(yielded) = Len(Fwd)
          /\ Contents' = s'
    ]_vars

\* A for_each over three nodes that has called its closure on each of them
\* and has changed the last payload.
C27_Witness ==
  /\ pc = "for_each"
  /\ cur_ptr = Null
  /\ Len(yielded) = 3
  /\ yielded[3] = last
  /\ s[3] # s[2]
  /\ anyPop

\* C28: a call of next that returns an element returns the node under the
\* cursor and moves the cursor to the next handle of that node, never back to
\* a node already returned; a call returns None only with the cursor null;
\* once None was returned the cursor stays null and next returns None.
C28_ForwardOnly ==
  [][(pc = "iterating" /\ pc' = "iterating") =>
       /\ wr' = <<>> =>
            IF it_next = Null
              THEN it_ret' = None /\ it_next' = Null
              ELSE /\ it_ret' = Some(it_next)
                   /\ it_next' = mem[it_next].next
                   /\ it_next' \notin Range(yielded')
       /\ it_ret = None => (it_ret' = None /\ it_next = Null /\ it_next' = Null)
    ]_vars

\* An iterator over three nodes that has returned None to a second call.
C28_Witness ==
  /\ pc = "iterating"
  /\ it_ret = None
  /\ it_next = Null
  /\ Len(yielded) = 3
  /\ yielded[1] = first
  /\ wr = <<>>

\* The lines of the files from file f, line l on, as Lines.
RECURSIVE LinesFrom(_, _)
LinesFrom(f, l) ==
  IF f > Len(gfiles) THEN <<>>
  ELSE IF l > Len(gfiles[f]) THEN LinesFrom(f + 1, 1)
  ELSE <<<<gfiles[f][l], f - 1, l - 1>>>> \o LinesFrom(f, l + 1)

\* The lines among them that contain the pattern.
RECURSIVE Matching(_)
Matching(ls) ==
  IF ls = <<>> THEN <<>>
  ELSE (IF Contains(ls[1][1], gpattern) THEN <<ls[1]>> ELSE <<>>) \o Matching(Tail(ls))

IsPrefix(a, b) == Len(a) <= Len(b) /\ SubSeq(b, 1, Len(a)) = a

\* C29: whatever the threads' interleaving, the lines output_lines has
\* received are the first of the lines of the files, in the order of the
\* files and of their lines, that contain the pattern, each with its file
\* and line index; when output_lines ends it has received all of them, and
\* in Count mode it prints their number.
C29_PipelineOrder ==
  /\ IsPrefix(grecv, Matching(LinesFrom(1, 1)))
  /\ gmode # "off" /\ gpc["output_lines"] = "done" =>
       /\ grecv = Matching(LinesFrom(1, 1))
       /\ gmode = "Count" => gprinted = <<Len(Matching(LinesFrom(1, 1)))>>
       /\ gmode = "Print" => gprinted = Matching(LinesFrom(1, 1))

\* Two files, three lines, of which the first and the last contain the
\* pattern without starting with it; all three threads have ended.
C29_Witness ==
  /\ gmode = "Count"
  /\ gpc["output_lines"] = "done"
  /\ gpc["read_files"] = "done"
  /\ Len(gfiles) = 2
  /\ Len(gfiles[1]) = 2
  /\ gpattern = <<1>>
  /\ grecv = <<<<<<2, 1>>, 0, 0>>, <<<<2, 1>>, 1, 0>>>>
  /\ gprinted = <<2>>

====
